---------------------------- MODULE Spec2Model ----------------------------
(***************************************************************************)
(* A model of rabbitmq-dump-queue (src/main.go): one run of main, which    *)
(* calls dumpMessagesFromQueue, against a broker queue, an output          *)
(* directory and the sqlite store dump.db.                                 *)
(*                                                                         *)
(* A Go string or []byte is a sequence of one-character strings, so that   *)
(* string concatenation, padding and quoting are computed, not assumed.    *)
(* A generated text (a JSON document, an SQL statement) is a sequence of   *)
(* pieces: the fixed pieces the code or the encoder writes are kept whole, *)
(* the characters of the data are kept one by one.                         *)
(***************************************************************************)
EXTENDS Naturals, Sequences, FiniteSets, TLC

(* ------------------------------ bounds -------------------------------- *)

\* Longest initial queue.
MaxQueue == 2

\* Largest value of the max-messages flag the model draws (0 = unlimited).
MaxMax == 2

(* ------------------------------ strings ------------------------------- *)

None == [t |-> "none"]

\* The nil error.
Nil == "nil"

Quote == "'"

Orders == <<"o", "r", "d", "e", "r", "s">>

DigitChar(d) == <<"0", "1", "2", "3", "4", "5", "6", "7", "8", "9">>[d + 1]

IsDigit(c) == c \in {"0", "1", "2", "3", "4", "5", "6", "7", "8", "9"}

DigitVal(c) == CHOOSE d \in 0..9 : DigitChar(d) = c

RECURSIVE Decimal(_)
\* %d of an unsigned number: its decimal digits, most significant first.
Decimal(n) == IF n < 10 THEN <<DigitChar(n)>>
              ELSE Decimal(n \div 10) \o <<DigitChar(n % 10)>>

RECURSIVE ZeroPad(_, _)
\* The flag 0 with a width: zeros on the left up to the width, never a cut.
ZeroPad(s, width) == IF Len(s) >= width THEN s ELSE ZeroPad(<<"0">> \o s, width)

(* ------------------------------ messages ------------------------------ *)

\* A Go interface value holding a string, a uint8 or a float64.
Str(s) == [t |-> "string", v |-> s]
U8(n) == [t |-> "uint8", v |-> n]
F64(x) == [t |-> "float64", v |-> x]

\* time.Time: 0 is the zero instant (IsZero), any other value an instant.
ZeroTime == 0

\* An amqp091.Delivery with every field zero.
EmptyDelivery ==
    [AppId |-> <<>>, ContentEncoding |-> <<>>, ContentType |-> <<>>,
     CorrelationId |-> <<>>, DeliveryMode |-> 0, Expiration |-> <<>>,
     MessageId |-> <<>>, Priority |-> 0, ReplyTo |-> <<>>, Type |-> <<>>,
     UserId |-> <<>>, Exchange |-> <<>>, RoutingKey |-> <<>>,
     Timestamp |-> ZeroTime, Headers |-> <<>>, Body |-> <<>>]

\* Headers (amqp091.Table) are a sequence of <<key, value>> pairs in key order.
MsgPlain == [EmptyDelivery EXCEPT !.Body = <<"a">>, !.RoutingKey = Orders,
                                  !.DeliveryMode = 2]
MsgQuote == [EmptyDelivery EXCEPT !.Body = <<"i", "t", Quote, "s">>,
                                  !.Headers = <<<<"h", Str(<<"x">>)>>>>]
MsgDigits == [EmptyDelivery EXCEPT !.Body = <<"0", "7">>, !.Timestamp = 1]
MsgNaN == [EmptyDelivery EXCEPT !.Body = <<"b">>,
                                !.Headers = <<<<"h", F64("NaN")>>>>]

\* The messages a queue of the model holds.
Messages == {MsgPlain, MsgQuote, MsgDigits, MsgNaN}

RECURSIVE SeqsUpTo(_, _)
\* The sequences over S of length at most n.
SeqsUpTo(S, n) ==
    IF n = 0 THEN {<<>>}
    ELSE LET shorter == SeqsUpTo(S, n - 1)
         IN  shorter \cup {Append(q, m) : q \in shorter, m \in S}

(* --------------------------- getProperties ---------------------------- *)

\* The keys of the map literal of getProperties.
FixedKeys == {"app_id", "content_encoding", "content_type", "correlation_id",
              "delivery_mode", "expiration", "message_id", "priority",
              "reply_to", "type", "user_id", "exchange", "routing_key"}

\* The map literal: every field as an interface value.
PropsLiteral(msg) ==
    [k \in FixedKeys |->
        CASE k = "app_id" -> Str(msg.AppId)
          [] k = "content_encoding" -> Str(msg.ContentEncoding)
          [] k = "content_type" -> Str(msg.ContentType)
          [] k = "correlation_id" -> Str(msg.CorrelationId)
          [] k = "delivery_mode" -> U8(msg.DeliveryMode)
          [] k = "expiration" -> Str(msg.Expiration)
          [] k = "message_id" -> Str(msg.MessageId)
          [] k = "priority" -> U8(msg.Priority)
          [] k = "reply_to" -> Str(msg.ReplyTo)
          [] k = "type" -> Str(msg.Type)
          [] k = "user_id" -> Str(msg.UserId)
          [] k = "exchange" -> Str(msg.Exchange)
          [] k = "routing_key" -> Str(msg.RoutingKey)]

\* Time.String() of a non-zero instant: a non-empty text.
TimeString(ts) == <<"t">> \o Decimal(ts)

\* v == "" on an interface value: true of the empty string alone.
EqualsEmptyString(v) == v.t = "string" /\ v.v = <<>>

\* A loop that also drops the numeric fields holding zero.
DeletesAlsoZero(v) == EqualsEmptyString(v) \/ (v.t = "uint8" /\ v.v = 0)

\* A loop that drops nothing.
DeletesNothing(v) == FALSE

\* What the loop over the map deletes.
Deleted(v) == EqualsEmptyString(v)

getProperties(msg) ==
    LET lit == PropsLiteral(msg)
        withTs == IF msg.Timestamp # ZeroTime
                  THEN [k \in FixedKeys \cup {"timestamp"} |->
                          IF k = "timestamp" THEN Str(TimeString(msg.Timestamp))
                          ELSE lit[k]]
                  ELSE lit
        kept == {k \in DOMAIN withTs : ~Deleted(withTs[k])}
    IN  [k \in kept |-> withTs[k]]

\* An envelope whose headers were left out.
EnvelopeWithoutHeaders(msg) == [properties |-> getProperties(msg)]

\* extras: the envelope both sinks serialize.
Envelope(msg) == [properties |-> getProperties(msg), headers |-> msg.Headers]

(* ------------------------- json.MarshalIndent -------------------------- *)

\* The keys of properties in the order the encoder writes a map: sorted.
SortedKeys == <<"app_id", "content_encoding", "content_type", "correlation_id",
                "delivery_mode", "exchange", "expiration", "message_id",
                "priority", "reply_to", "routing_key", "timestamp", "type",
                "user_id">>

\* A character inside a JSON string (the encoder escapes HTML characters too).
EscapeChar(c) ==
    CASE c = "\"" -> <<"\\", "\"">>
      [] c = "\\" -> <<"\\", "\\">>
      [] c = "<" -> <<"\\", "u", "0", "0", "3", "c">>
      [] c = ">" -> <<"\\", "u", "0", "0", "3", "e">>
      [] c = "&" -> <<"\\", "u", "0", "0", "2", "6">>
      [] OTHER -> <<c>>

RECURSIVE EscapeString(_)
EscapeString(s) ==
    IF s = <<>> THEN <<>> ELSE EscapeChar(Head(s)) \o EscapeString(Tail(s))

\* Whether the encoder can write the value: NaN and the infinities it cannot.
Marshalable(v) == v.t # "float64"

MarshalValue(v) ==
    IF v.t = "string" THEN <<"\"">> \o EscapeString(v.v) \o <<"\"">>
    ELSE Decimal(v.v)

RECURSIVE Indent(_)
Indent(level) == IF level = 0 THEN <<>> ELSE <<"  ">> \o Indent(level - 1)

RECURSIVE MarshalEntries(_, _)
\* The entries of a map, each on its line, separated by commas.
MarshalEntries(pairs, level) ==
    IF pairs = <<>> THEN <<>>
    ELSE Indent(level) \o <<"\"", Head(pairs)[1], "\"", ":", " ">>
         \o Head(pairs)[2]
         \o (IF Len(pairs) > 1 THEN <<",", "\n">> ELSE <<"\n">>)
         \o MarshalEntries(Tail(pairs), level)

\* A map whose values are already written; pairs are <<key, text>> in key order.
MarshalMap(pairs, level) ==
    IF pairs = <<>> THEN <<"{}">>
    ELSE <<"{", "\n">> \o MarshalEntries(pairs, level + 1)
         \o Indent(level) \o <<"}">>

RECURSIVE HeaderPairs(_)
HeaderPairs(headers) ==
    IF headers = <<>> THEN <<>>
    ELSE <<<<Head(headers)[1], MarshalValue(Head(headers)[2])>>>>
         \o HeaderPairs(Tail(headers))

RECURSIVE PropertyPairs(_, _)
PropertyPairs(props, i) ==
    IF i > Len(SortedKeys) THEN <<>>
    ELSE (IF SortedKeys[i] \in DOMAIN props
          THEN <<<<SortedKeys[i], MarshalValue(props[SortedKeys[i]])>>>>
          ELSE <<>>)
         \o PropertyPairs(props, i + 1)

\* err of json.MarshalIndent(extras, "", "  ").
MarshalFails(extras) ==
    \/ /\ "headers" \in DOMAIN extras
       /\ \E i \in 1..Len(extras.headers) : ~Marshalable(extras.headers[i][2])
    \/ /\ "properties" \in DOMAIN extras
       /\ \E k \in DOMAIN extras.properties : ~Marshalable(extras.properties[k])

\* data of json.MarshalIndent(extras, "", "  "): the keys extras has, sorted;
\* a nil table is written null.
MarshalIndent(extras) ==
    MarshalMap(
        (IF "headers" \in DOMAIN extras
         THEN <<<<"headers", IF extras.headers = <<>> THEN <<"null">>
                             ELSE MarshalMap(HeaderPairs(extras.headers), 1)>>>>
         ELSE <<>>)
        \o (IF "properties" \in DOMAIN extras
            THEN <<<<"properties",
                     MarshalMap(PropertyPairs(extras.properties, 1), 1)>>>>
            ELSE <<>>),
        0)

(* ------------------------------ file names ---------------------------- *)

\* A path that does not depend on the counter.
generateFilePathFixed(counter) == <<"msg-">> \o ZeroPad(Decimal(0), 4)

\* path.Join(outputDir, fmt.Sprintf("msg-%04d", counter)), below outputDir.
generateFilePath(counter) == <<"msg-">> \o ZeroPad(Decimal(counter), 4)

SidecarSuffix == <<"-headers+properties.json">>

\* The sidecar named after the Counter that follows.
SidecarPathOfNext(counter) == generateFilePath(counter + 1) \o SidecarSuffix

SidecarPath(counter) == generateFilePath(counter) \o SidecarSuffix

(* ------------------------------ the store ----------------------------- *)

\* The statement saveMessageToDb builds by concatenation.
InsertQuery(body, data) ==
    <<"INSERT INTO dump (message, headers) VALUES (">>
    \o <<Quote>> \o body \o <<Quote, ",", Quote>> \o data \o <<Quote>> \o <<")">>

RECURSIVE ScanLiteral(_, _, _)
\* A string literal from the piece after its opening quote: two quotes in a
\* row are one quote of the value, one quote alone ends the literal.
ScanLiteral(t, j, acc) ==
    IF j > Len(t) THEN [ok |-> FALSE]
    ELSE IF t[j] = Quote
         THEN IF j + 1 <= Len(t) /\ t[j + 1] = Quote
              THEN ScanLiteral(t, j + 2, Append(acc, Quote))
              ELSE [ok |-> TRUE, val |-> acc, next |-> j + 1]
         ELSE ScanLiteral(t, j + 1, Append(acc, t[j]))

RECURSIVE ParseValues(_, _, _)
\* The VALUES list from piece i: string literals separated by commas, closed
\* by the parenthesis that ends the statement. Anything else is a syntax
\* error (the bodies of the model form no other SQL expression).
ParseValues(t, i, vals) ==
    IF i > Len(t) \/ t[i] # Quote THEN [ok |-> FALSE]
    ELSE LET lit == ScanLiteral(t, i + 1, <<>>)
         IN  IF ~lit.ok \/ lit.next > Len(t) THEN [ok |-> FALSE]
             ELSE IF t[lit.next] = ","
                  THEN ParseValues(t, lit.next + 1, Append(vals, lit.val))
             ELSE IF t[lit.next] = ")" /\ lit.next = Len(t)
                  THEN [ok |-> TRUE, vals |-> Append(vals, lit.val)]
             ELSE [ok |-> FALSE]

RECURSIVE DigitsValue(_, _)
DigitsValue(s, acc) ==
    IF s = <<>> THEN acc ELSE DigitsValue(Tail(s), acc * 10 + DigitVal(Head(s)))

\* A column declared STRING has NUMERIC affinity: a text that is a well-formed
\* integer is stored as that integer, any other text as it is.
ColumnValue(text) ==
    IF text # <<>> /\ \A i \in 1..Len(text) : IsDigit(text[i])
    THEN [t |-> "integer", v |-> DigitsValue(text, 0)]
    ELSE [t |-> "text", v |-> text]

\* A text stored as it was given.
TextValue(text) == [t |-> "text", v |-> text]

\* The outcome of database.Exec(query) for an INSERT the store can execute:
\* the row it adds, or a failure (a syntax error, a wrong number of values).
ExecInsert(query, rows) ==
    LET parsed == ParseValues(query, 2, <<>>)
    IN  IF parsed.ok /\ Len(parsed.vals) = 2
        THEN [ok |-> TRUE,
              row |-> [id |-> Len(rows) + 1,
                       message |-> ColumnValue(parsed.vals[1]),
                       headers |-> ColumnValue(parsed.vals[2])]]
        ELSE [ok |-> FALSE]

(* ------------------------------ the state ----------------------------- *)

VARIABLES
    argN,             \* flag.NArg(): the positional arguments left over
    queue,            \* *queue
    ack,              \* *ack
    maxMessages,      \* *maxMessages
    db,               \* *db
    full,             \* *full
    pc,               \* where the run is
    conn,             \* the broker connection: "nil", "open", "closed"
    channel,          \* the channel: "nil", "open"
    database,         \* the *sql.DB: "nil", "open", "closed"
    defers,           \* the deferred calls of dumpMessagesFromQueue, last first
    err,              \* the error dumpMessagesFromQueue returns, or Nil
    messagesReceived, \* the loop counter
    msg,              \* the delivery of the current iteration, or None
    exitCode,         \* the exit status, meaningful once pc = "exited"
    stdout,           \* the paths echoed, one per file written
    stderr,           \* what was reported on standard error
    ready,            \* the broker: messages of the queue ready for delivery
    unacked,          \* the broker: delivered on this channel, not acknowledged
    fs,               \* the output directory: path -> content
    dump,             \* table dump of dump.db: whether it exists, and its rows
    ready0,           \* history: the queue before the run
    fs0,              \* history: the output directory before the run
    dump0,            \* history: the table before the run
    previous,         \* history: the runs that ended before this one
    dials,            \* history: calls of dial
    connOpens,        \* history: connections dial returned
    connCloses,       \* history: calls of conn.Close
    dbOpens,          \* history: calls of sql.Open
    dbCloses,         \* history: calls of database.Close
    gets,             \* history: the outcome of each channel.Get, in order
    fetched,          \* history: the deliveries fetched, in order
    inserts,          \* history: each saveMessageToDb call: the delivery, its outcome
    envFailure,       \* history: whether the broker, the disk or the store failed
    propsIn,          \* the delivery given to getProperties (PropsSpec)
    propsOut          \* what getProperties returned, or None (PropsSpec)

flags == <<argN, queue, ack, maxMessages, db, full>>
history0 == <<ready0, fs0, dump0, previous>>
propsVars == <<propsIn, propsOut>>
broker == <<ready, unacked>>
runVars == <<pc, conn, channel, database, defers, err, messagesReceived, msg,
             exitCode, stdout, stderr, fs, dump, dials, connOpens, connCloses,
             dbOpens, dbCloses, gets, fetched, inserts, envFailure>>
vars == <<flags, history0, propsVars, broker, runVars>>

\* A file and a row an earlier run left behind.
StaleFiles == [p \in {generateFilePath(0)} |-> <<"o", "l", "d">>]
StaleRows == <<[id |-> 1, message |-> TextValue(<<"o", "l", "d">>),
                headers |-> TextValue(<<"{}">>)]>>
NoFiles == [p \in {} |-> <<>>]

\* The state of a run that has not started, whatever the flags.
Idle ==
    /\ pc = "main"
    /\ conn = "nil" /\ channel = "nil" /\ database = "nil"
    /\ defers = <<>> /\ err = Nil
    /\ messagesReceived = 0 /\ msg = None /\ exitCode = 0
    /\ stdout = <<>> /\ stderr = <<>>
    /\ unacked = <<>>
    /\ dials = 0 /\ connOpens = 0 /\ connCloses = 0 /\ dbOpens = 0 /\ dbCloses = 0
    /\ gets = <<>> /\ fetched = <<>> /\ inserts = <<>>
    /\ envFailure = FALSE

Init ==
    /\ argN \in {0, 1}
    /\ queue \in {<<>>, <<"q">>}
    /\ ack \in BOOLEAN /\ db \in BOOLEAN /\ full \in BOOLEAN
    /\ maxMessages \in 0..MaxMax
    /\ ready0 \in SeqsUpTo(Messages, MaxQueue)
    /\ ready = ready0
    /\ \E earlier \in BOOLEAN :
          /\ fs0 = IF earlier THEN StaleFiles ELSE NoFiles
          /\ dump0 = IF earlier THEN [exists |-> TRUE, rows |-> StaleRows]
                     ELSE [exists |-> FALSE, rows |-> <<>>]
    /\ fs = fs0 /\ dump = dump0
    /\ previous = <<>>
    /\ Idle
    /\ propsIn = EmptyDelivery /\ propsOut = None

(* ------------------------------ main ---------------------------------- *)

\* return e from dumpMessagesFromQueue: the deferred calls run next.
Return(e) == pc' = "return" /\ err' = e

\* The exit status after the usage text.
UsageExitCode == 2

\* main, lines 30-36: leftover arguments end the process with the usage.
Main ==
    /\ pc = "main"
    /\ IF argN > 0
       THEN /\ stderr' = stderr \o <<"Error: Unused command line arguments detected.",
                                    "usage">>
            /\ exitCode' = UsageExitCode
            /\ pc' = "exited"
       ELSE /\ pc' = "checkQueue"
            /\ UNCHANGED <<stderr, exitCode>>
    /\ UNCHANGED <<flags, history0, propsVars, broker, conn, channel, database,
                   defers, err, messagesReceived, msg, stdout, fs, dump, dials, connOpens,
                   connCloses, dbOpens, dbCloses, gets, fetched, inserts,
                   envFailure>>

\* The exit status when dumpMessagesFromQueue returns an error.
ErrorExitCode == 1

\* main, lines 37-41, once dumpMessagesFromQueue has returned.
Exit ==
    /\ pc = "return" /\ defers = <<>>
    /\ IF err # Nil
       THEN stderr' = Append(stderr, err) /\ exitCode' = ErrorExitCode
       ELSE stderr' = stderr /\ exitCode' = 0
    /\ pc' = "exited"
    /\ UNCHANGED <<flags, history0, propsVars, broker, conn, channel, database,
                   defers, err, messagesReceived, msg, stdout, fs, dump, dials, connOpens,
                   connCloses, dbOpens, dbCloses, gets, fetched, inserts,
                   envFailure>>

(* ----------------------- dumpMessagesFromQueue ------------------------ *)

fixed == <<flags, history0, propsVars>>

\* Lines 56-58: an empty queue name is an error, returned before any dial.
CheckQueueName ==
    /\ pc = "checkQueue"
    /\ IF queue = <<>> THEN Return("Must supply queue name")
       ELSE pc' = "dial" /\ err' = err
    /\ UNCHANGED <<fixed, broker, conn, channel, database, defers,
                   messagesReceived, msg, exitCode, stdout, stderr, fs, dump,
                   dials, connOpens, connCloses, dbOpens, dbCloses, gets, fetched, inserts,
                   envFailure>>

\* No deferred call registered.
DefersNothing == <<>>

\* Lines 65-68: what a successful dial defers.
DeferredAfterDial == <<"conn.Close">>

\* Lines 76-79: what is deferred once sql.Open has returned.
DeferredAfterOpen == <<"database.Close">>

\* Lines 60-68: dial, and on success defer the close of the connection.
Dial ==
    /\ pc = "dial"
    /\ dials' = dials + 1
    /\ \/ /\ conn' = "open"
          /\ connOpens' = connOpens + 1
          /\ defers' = DeferredAfterDial \o defers
          /\ pc' = "channel"
          /\ UNCHANGED <<err, envFailure>>
       \/ /\ Return("Dial")
          /\ envFailure' = TRUE
          /\ UNCHANGED <<conn, connOpens, defers>>
    /\ UNCHANGED <<fixed, broker, channel, database, messagesReceived, msg,
                   exitCode, stdout, stderr, fs, dump, connCloses, dbOpens,
                   dbCloses, gets, fetched, inserts>>

\* Lines 70-73: open the channel.
OpenChannel ==
    /\ pc = "channel"
    /\ \/ /\ channel' = "open"
          /\ pc' = "sqlOpen"
          /\ UNCHANGED <<err, envFailure>>
       \/ /\ Return("Channel")
          /\ envFailure' = TRUE
          /\ UNCHANGED channel
    /\ UNCHANGED <<fixed, broker, conn, database, defers, messagesReceived, msg,
                   exitCode, stdout, stderr, fs, dump, dials, connOpens, connCloses,
                   dbOpens, dbCloses, gets, fetched, inserts>>

\* Lines 75-79: sql.Open with a registered driver only records the data source
\* (nothing is opened yet, so nothing fails); its close is deferred.
SqlOpen ==
    /\ pc = "sqlOpen"
    /\ database' = "open"
    /\ dbOpens' = dbOpens + 1
    /\ defers' = DeferredAfterOpen \o defers
    /\ pc' = "createTable"
    /\ UNCHANGED <<fixed, broker, conn, channel, err, messagesReceived, msg,
                   exitCode, stdout, stderr, fs, dump, dials, connOpens, connCloses,
                   dbCloses, gets, fetched, inserts, envFailure>>

\* A failed table creation after which the run goes on to the loop.
AfterTableErrorIgnored == "loop"

\* Lines 87-89: a failed table creation is returned at once, whatever db is.
AfterTableError == "return"

\* Lines 80-89: CREATE TABLE IF NOT EXISTS, in either sink mode; its failure
\* is returned.
CreateTable ==
    /\ pc = "createTable"
    /\ \/ /\ dump' = [dump EXCEPT !.exists = TRUE]
          /\ pc' = "loop"
          /\ UNCHANGED <<err, envFailure>>
       \/ /\ pc' = AfterTableError
          /\ err' = "SQLite"
          /\ envFailure' = TRUE
          /\ UNCHANGED dump
    /\ UNCHANGED <<fixed, broker, conn, channel, database, defers,
                   messagesReceived, msg, exitCode, stdout, stderr, fs, dials, connOpens,
                   connCloses, dbOpens, dbCloses, gets, fetched, inserts>>

\* A loop that runs once more than the bound.
LoopContinuesOnceMore(received, max) == max = 0 \/ received <= max

\* Line 92: the condition of the for statement.
LoopContinues(received, max) == max = 0 \/ received < max

\* Line 92: the loop goes on to a Get, or ends and nil is returned (line 122).
LoopCondition ==
    /\ pc = "loop"
    /\ IF LoopContinues(messagesReceived, maxMessages)
       THEN pc' = "get" /\ err' = err
       ELSE Return(Nil)
    /\ UNCHANGED <<fixed, broker, conn, channel, database, defers,
                   messagesReceived, msg, exitCode, stdout, stderr, fs, dump,
                   dials, connOpens, connCloses, dbOpens, dbCloses, gets, fetched, inserts,
                   envFailure>>

\* An empty queue that does not end the loop.
AfterEmptyContinue == "loop"

\* Lines 100-103: break leaves the loop for the return of line 122.
AfterEmpty == "return"

\* A fetch that acknowledges whatever the flag says.
AutoAckAlways == TRUE

\* Line 94: the autoAck argument of every channel.Get is the flag *ack.
AutoAck == ack

\* A failed fetch after which the loop tries again.
AfterGetErrorContinue == "loop"

\* Lines 96-98: a failed fetch is returned at once.
AfterGetError == "return"

\* Lines 93-103: one channel.Get(queueName, *ack). The broker hands over the
\* head of the queue; without autoAck it keeps the message as unacknowledged.
Get ==
    /\ pc = "get"
    /\ \/ /\ gets' = Append(gets, "error")
          /\ pc' = AfterGetError
          /\ err' = "Queue get"
          /\ envFailure' = TRUE
          /\ UNCHANGED <<broker, msg, fetched>>
       \/ /\ ready = <<>>
          /\ gets' = Append(gets, "empty")
          /\ pc' = AfterEmpty
          /\ UNCHANGED <<broker, msg, fetched, err, envFailure>>
       \/ /\ ready # <<>>
          /\ gets' = Append(gets, "message")
          /\ msg' = Head(ready)
          /\ fetched' = Append(fetched, Head(ready))
          /\ ready' = Tail(ready)
          /\ unacked' = IF AutoAck THEN unacked
                         ELSE Append(unacked, Head(ready))
          /\ pc' = IF db THEN "saveDb" ELSE "saveFile"
          /\ UNCHANGED <<err, envFailure>>
    /\ UNCHANGED <<fixed, conn, channel, database, defers, messagesReceived,
                   exitCode, stdout, stderr, fs, dump, dials, connOpens, connCloses,
                   dbOpens, dbCloses, inserts>>

(* ------------------------------ the sinks ----------------------------- *)

\* A write that adds to what the file holds.
PutAppended(dir, path, content) ==
    [p \in DOMAIN dir \cup {path} |->
        IF p = path
        THEN (IF path \in DOMAIN dir THEN dir[path] ELSE <<>>) \o content
        ELSE dir[p]]

\* Lines 145 and 196: the directory after ioutil.WriteFile put content at
\* path; a file that was there is truncated first.
Put(dir, path, content) ==
    [p \in DOMAIN dir \cup {path} |-> IF p = path THEN content ELSE dir[p]]

\* What a failed ioutil.WriteFile(path, ...) can leave in the directory: the
\* file was not opened, or it was created or truncated and nothing written.
AfterFailedWrite(dir, path) == {dir, Put(dir, path, <<>>)}

\* A failed write after which the loop goes on with the next iteration.
AfterWriteErrorSkip == "loop"

\* Lines 109-111 and 115-117: a failed write is returned at once.
AfterWriteError == "return"

\* A failed store of a message that ends the loop.
AfterStoreErrorAbort == "return"

\* Line 106: the error saveMessageToDb returns is not looked at; the loop goes
\* on with its post statement.
AfterStoreError == "loop"

\* Lines 105-106 and 125-141: the envelope is serialized and the INSERT built
\* by concatenation is executed; the error saveMessageToDb returns is dropped
\* by the caller, so the loop goes on (messagesReceived++) in every case.
SaveMessageToDb ==
    /\ pc = "saveDb"
    /\ LET extras == Envelope(msg)
           query == InsertQuery(msg.Body, MarshalIndent(extras))
           done == ExecInsert(query, dump.rows)
       IN  \/ /\ MarshalFails(extras)
              /\ inserts' = Append(inserts, [msg |-> msg, ok |-> FALSE])
              /\ pc' = AfterStoreError
              /\ UNCHANGED <<dump, envFailure>>
           \/ /\ ~MarshalFails(extras)
              /\ inserts' = Append(inserts, [msg |-> msg, ok |-> FALSE])
              /\ envFailure' = TRUE
              /\ pc' = AfterStoreError
              /\ UNCHANGED dump
           \/ /\ ~MarshalFails(extras)
              /\ ~done.ok
              /\ inserts' = Append(inserts, [msg |-> msg, ok |-> FALSE])
              /\ pc' = AfterStoreError
              /\ UNCHANGED <<dump, envFailure>>
           \/ /\ ~MarshalFails(extras)
              /\ done.ok
              /\ dump' = [dump EXCEPT !.rows = Append(@, done.row)]
              /\ inserts' = Append(inserts, [msg |-> msg, ok |-> TRUE])
              /\ pc' = "loop"
              /\ UNCHANGED envFailure
    /\ messagesReceived' = messagesReceived + 1
    /\ msg' = None
    /\ UNCHANGED <<fixed, broker, conn, channel, database, defers, err,
                   exitCode, stdout, stderr, fs, dials, connOpens, connCloses, dbOpens,
                   dbCloses, gets, fetched>>

\* Lines 107-111 and 143-153: the body is written to msg-<counter> and the
\* path echoed; a failed write is returned. Without *full the iteration ends
\* here (messagesReceived++).
SaveMessageToFile ==
    /\ pc = "saveFile"
    /\ LET filePath == generateFilePath(messagesReceived)
       IN  \/ /\ fs' = Put(fs, filePath, msg.Body)
              /\ stdout' = Append(stdout, filePath)
              /\ IF full
                 THEN pc' = "saveProps" /\ UNCHANGED <<messagesReceived, msg>>
                 ELSE /\ pc' = "loop"
                      /\ messagesReceived' = messagesReceived + 1
                      /\ msg' = None
              /\ UNCHANGED <<err, envFailure>>
           \/ /\ fs' \in AfterFailedWrite(fs, filePath)
              /\ pc' = AfterWriteError
              /\ err' = "save message"
              /\ envFailure' = TRUE
              /\ UNCHANGED <<stdout, messagesReceived, msg>>
    /\ UNCHANGED <<fixed, broker, conn, channel, database, defers, exitCode,
                   stderr, dump, dials, connOpens, connCloses, dbOpens, dbCloses, gets,
                   fetched, inserts>>

\* Lines 113-118 and 185-204: with *full the envelope is serialized and written
\* beside the body; a failed serialization or write is returned.
SavePropsAndHeadersToFile ==
    /\ pc = "saveProps"
    /\ LET extras == Envelope(msg)
           filePath == SidecarPath(messagesReceived)
       IN  \/ /\ MarshalFails(extras)
              /\ pc' = AfterWriteError
              /\ err' = "save props and headers"
              /\ UNCHANGED <<fs, stdout, messagesReceived, msg, envFailure>>
           \/ /\ ~MarshalFails(extras)
              /\ fs' \in AfterFailedWrite(fs, filePath)
              /\ pc' = AfterWriteError
              /\ err' = "save props and headers"
              /\ envFailure' = TRUE
              /\ UNCHANGED <<stdout, messagesReceived, msg>>
           \/ /\ ~MarshalFails(extras)
              /\ fs' = Put(fs, filePath, MarshalIndent(extras))
              /\ stdout' = Append(stdout, filePath)
              /\ pc' = "loop"
              /\ messagesReceived' = messagesReceived + 1
              /\ msg' = None
              /\ UNCHANGED <<err, envFailure>>
    /\ UNCHANGED <<fixed, broker, conn, channel, database, defers, exitCode,
                   stderr, dump, dials, connOpens, connCloses, dbOpens, dbCloses, gets,
                   fetched, inserts>>

(* --------------------------- deferred calls --------------------------- *)

\* Lines 65-68 and 76-79: on return the deferred calls run, last deferred
\* first. Closing the connection makes the broker requeue what it delivered
\* unacknowledged.
RunDeferred ==
    /\ pc = "return" /\ defers # <<>>
    /\ defers' = Tail(defers)
    /\ IF Head(defers) = "conn.Close"
       THEN /\ conn' = "closed"
            /\ connCloses' = connCloses + 1
            /\ ready' = unacked \o ready
            /\ unacked' = <<>>
            /\ UNCHANGED <<database, dbCloses>>
       ELSE /\ database' = "closed"
            /\ dbCloses' = dbCloses + 1
            /\ UNCHANGED <<conn, connCloses, broker>>
    /\ UNCHANGED <<fixed, pc, channel, err, messagesReceived, msg, exitCode,
                   stdout, stderr, fs, dump, dials, connOpens, dbOpens, gets, fetched,
                   inserts, envFailure>>

(* --------------------------- specifications --------------------------- *)

Next ==
    \/ Main
    \/ CheckQueueName
    \/ Dial
    \/ OpenChannel
    \/ SqlOpen
    \/ CreateTable
    \/ LoopCondition
    \/ Get
    \/ SaveMessageToDb
    \/ SaveMessageToFile
    \/ SavePropsAndHeadersToFile
    \/ RunDeferred
    \/ Exit

\* Every run of the program, from every start the model draws.
Spec == Init /\ [][Next]_vars

(* ------------------------- one run after another --------------------- *)

\* The same command line is run again once a File Sink run has exited: a new
\* process starts in main with the flags, the output directory and the store
\* as the first run left them. The queue holds what the first run left in it,
\* or the same messages as before the first run (published again).
RerunFileSink ==
    /\ pc = "exited" /\ previous = <<>>
    /\ ~db
    /\ previous' = <<[fs |-> fs, fetched |-> fetched, stdout |-> stdout,
                     exitCode |-> exitCode]>>
    /\ ready' \in {ready, ready0}
    /\ ready0' = ready'
    /\ fs0' = fs /\ dump0' = dump
    /\ pc' = "main"
    /\ conn' = "nil" /\ channel' = "nil" /\ database' = "nil"
    /\ defers' = <<>> /\ err' = Nil
    /\ messagesReceived' = 0 /\ msg' = None /\ exitCode' = 0
    /\ stdout' = <<>> /\ stderr' = <<>>
    /\ unacked' = <<>>
    /\ dials' = 0 /\ connOpens' = 0 /\ connCloses' = 0
    /\ dbOpens' = 0 /\ dbCloses' = 0
    /\ gets' = <<>> /\ fetched' = <<>> /\ inserts' = <<>>
    /\ envFailure' = FALSE
    /\ UNCHANGED <<flags, propsVars, fs, dump>>

NextTwice == Next \/ RerunFileSink

\* Every run of the program, and every second run of a File Sink command.
TwiceSpec == Init /\ [][NextTwice]_vars

(* ------------------- getProperties as a function ---------------------- *)

\* The deliveries getProperties is applied to: every field empty or not.
Texts == {<<>>, <<"x">>}
Deliveries ==
    [AppId : Texts, ContentEncoding : Texts, ContentType : Texts,
     CorrelationId : Texts, DeliveryMode : {0, 2}, Expiration : Texts,
     MessageId : Texts, Priority : {0, 5}, ReplyTo : Texts, Type : Texts,
     UserId : Texts, Exchange : Texts, RoutingKey : {<<>>, Orders},
     Timestamp : {ZeroTime, 1}, Headers : {<<>>}, Body : {<<>>}]

PropsInit ==
    /\ propsIn \in Deliveries
    /\ propsOut = None
    /\ argN = 0 /\ queue = <<"q">> /\ ack = FALSE /\ db = FALSE /\ full = FALSE
    /\ maxMessages = 0
    /\ ready0 = <<>> /\ ready = <<>>
    /\ fs0 = NoFiles /\ fs = NoFiles
    /\ dump0 = [exists |-> FALSE, rows |-> <<>>] /\ dump = dump0
    /\ previous = <<>>
    /\ Idle

\* One call of getProperties (lines 155-183).
CallGetProperties ==
    /\ propsOut = None
    /\ propsOut' = getProperties(propsIn)
    /\ UNCHANGED <<propsIn, flags, history0, broker, runVars>>

PropsSpec == PropsInit /\ [][CallGetProperties]_vars

(* ------------------------------ the claims ---------------------------- *)

\* The name of the k-th body file for k < 10, written out.
ExpectedBodyPath(k) == <<"msg-", "0", "0", "0", DigitChar(k)>>

ExpectedSidecarPath(k) == ExpectedBodyPath(k) \o <<"-headers+properties.json">>

IsSidecarPath(path) == path[Len(path)] = "-headers+properties.json"

IsBodyPath(path) == ~IsSidecarPath(path)

\* The body files this run wrote, in the order it wrote them.
BodiesWritten == SelectSeq(stdout, IsBodyPath)

SidecarsWritten == SelectSeq(stdout, IsSidecarPath)

\* The rows this run added to the table.
RowsAdded == SubSeq(dump.rows, Len(dump0.rows) + 1, Len(dump.rows))

IsOk(insert) == insert.ok

\* The run ended and main returned normally.
ExitedWithoutError == pc = "exited" /\ argN = 0 /\ exitCode = 0

\* The bodies of the first n fetched messages are in msg-0000 .. msg-(n-1),
\* written in that order, and nothing else was written as a body.
BodyFilesAre(n) ==
    /\ Len(BodiesWritten) = n
    /\ n <= Len(fetched)
    /\ \A i \in 1..n :
          /\ BodiesWritten[i] = ExpectedBodyPath(i - 1)
          /\ BodiesWritten[i] \in DOMAIN fs
          /\ fs[BodiesWritten[i]] = fetched[i].Body

\* A bounded run against a queue long enough for the bound.
BoundedRun == maxMessages > 0 /\ Len(ready0) >= maxMessages

\* Nothing outside the program failed: the broker, the disk and the store did
\* what they were asked, and the encoder could write every fetched message.
NothingFailed ==
    /\ ~envFailure
    /\ \A i \in 1..Len(fetched) : ~MarshalFails(Envelope(fetched[i]))

\* C1: a run with max-messages = N > 0 against a queue of at least N messages,
\* in which nothing outside the program fails, ends having produced exactly N
\* Dump Records, in either sink mode and either ack mode: the first N messages
\* of the queue are fetched, and the File Sink has written N body files with
\* Counters 0..N-1 in fetch order, the Store Sink has added N rows.
C1_AsStated ==
    (ExitedWithoutError /\ BoundedRun /\ NothingFailed) =>
        /\ fetched = SubSeq(ready0, 1, maxMessages)
        /\ ~db => BodyFilesAre(maxMessages)
        /\ db => Len(RowsAdded) = maxMessages

\* What does hold of a bounded run that ended without error, whatever failed:
\* it has fetched exactly the first N messages, with Counters 0..N-1 in fetch
\* order. The File Sink has produced exactly N body files, msg-<i> holding the
\* i-th fetched body. The Store Sink has attempted one insert per fetched
\* message, in fetch order, and has added a row for each insert that
\* succeeded and for no other.
BoundedRunRecords ==
    (ExitedWithoutError /\ BoundedRun) =>
        /\ fetched = SubSeq(ready0, 1, maxMessages)
        /\ messagesReceived = maxMessages
        /\ Len(gets) = maxMessages
        /\ ~db => BodyFilesAre(maxMessages) /\ inserts = <<>>
        /\ db => /\ stdout = <<>>
                 /\ Len(inserts) = maxMessages
                 /\ \A i \in 1..maxMessages : inserts[i].msg = fetched[i]
                 /\ Len(RowsAdded) = Len(SelectSeq(inserts, IsOk))
                 /\ \A j \in 1..Len(RowsAdded) :
                       RowsAdded[j].id = Len(dump0.rows) + j

\* An unbounded run (max-messages = 0).
UnboundedRun == maxMessages = 0

\* C2: a run with max-messages = 0 against a queue of M messages that receives
\* no new ones, in which nothing outside the program fails, leaves the loop
\* through the queue-empty outcome after fetching all M messages and has
\* produced exactly M records.
C2_AsStated ==
    (ExitedWithoutError /\ UnboundedRun /\ NothingFailed) =>
        /\ fetched = ready0
        /\ gets # <<>> /\ gets[Len(gets)] = "empty"
        /\ ~db => BodyFilesAre(Len(ready0))
        /\ db => Len(RowsAdded) = Len(ready0)

\* What does hold of an unbounded run that ended without error: it left the
\* loop through the queue-empty outcome, on the fetch after the M-th message;
\* the File Sink has produced exactly M body files, the Store Sink has
\* attempted M inserts and added a row for each one that succeeded.
UnboundedRunEndedAtEmpty ==
    (ExitedWithoutError /\ UnboundedRun) =>
        /\ fetched = ready0
        /\ messagesReceived = Len(ready0)
        /\ Len(gets) = Len(ready0) + 1
        /\ gets[Len(gets)] = "empty"
        /\ \A i \in 1..Len(ready0) : gets[i] = "message"
        /\ ~db => BodyFilesAre(Len(ready0)) /\ inserts = <<>>
        /\ db => /\ stdout = <<>>
                 /\ Len(inserts) = Len(ready0)
                 /\ \A i \in 1..Len(ready0) : inserts[i].msg = fetched[i]
                 /\ Len(RowsAdded) = Len(SelectSeq(inserts, IsOk))

\* The steps a run can still take, at most: the stages before the loop, four
\* steps for each message left in the queue, the deferred calls, the exit.
StepsLeft ==
    CASE pc = "exited" -> 0
      [] pc = "return" -> 1 + Len(defers)
      [] pc = "saveProps" -> 4 * Len(ready) + 8
      [] pc \in {"saveFile", "saveDb"} -> 4 * Len(ready) + 9
      [] pc = "get" -> 4 * Len(ready) + 6
      [] pc = "loop" -> 4 * Len(ready) + 7
      [] pc = "createTable" -> 4 * Len(ready) + 8
      [] pc = "sqlOpen" -> 4 * Len(ready) + 9
      [] pc = "channel" -> 4 * Len(ready) + 10
      [] pc = "dial" -> 4 * Len(ready) + 11
      [] pc = "checkQueue" -> 4 * Len(ready) + 12
      [] pc = "main" -> 4 * Len(ready) + 13

\* Every unbounded run terminates, records or not: until it has exited it can
\* take a step, and every step leaves fewer steps to take.
UnboundedRunTerminates ==
    /\ []UnboundedRunEndedAtEmpty
    /\ []((UnboundedRun /\ pc # "exited") => ENABLED Next)
    /\ [][UnboundedRun => StepsLeft' < StepsLeft]_vars

\* C3: in every state of a File Sink run, also after a failed write and on the
\* way out of an aborted run, the body files the run has written are exactly
\* msg-0000 .. msg-(k-1) for some k, written in that order, each once, and
\* msg-<i> holds the body of the i-th message fetched.
C3_BodiesInFetchOrder ==
    ~db =>
        /\ BodyFilesAre(Len(BodiesWritten))
        /\ Len(BodiesWritten) \in {messagesReceived, messagesReceived + 1}
        /\ \A i, j \in 1..Len(BodiesWritten) :
              i # j => BodiesWritten[i] # BodiesWritten[j]

\* C3's case: a File Sink run that wrote two bodies and then aborted.
C3_Witness ==
    /\ ~db /\ Len(BodiesWritten) = 2
    /\ fetched[1] # fetched[2]
    /\ pc = "exited" /\ exitCode = 1

\* The first fetch of the run found the queue empty.
FirstFetchEmpty == gets # <<>> /\ gets[1] = "empty"

\* C4: when the first fetch reports the queue empty, the loop ends without
\* error: no fetch follows, no body file, sidecar or row is produced, the
\* directory and the table are as before the run, and the exit code is 0.
C4_EmptyQueueEndsRun ==
    FirstFetchEmpty =>
        /\ gets = <<"empty">>
        /\ pc \in {"return", "exited"}
        /\ err = Nil
        /\ stdout = <<>> /\ fs = fs0
        /\ inserts = <<>> /\ dump.rows = dump0.rows
        /\ messagesReceived = 0
        /\ pc = "exited" => exitCode = 0

\* C4's case: the run exited after its first fetch found the queue empty.
C4_Witness == FirstFetchEmpty /\ pc = "exited" /\ ready0 = <<>>

\* No connection attempt of any kind was made.
NothingAttempted ==
    /\ dials = 0 /\ conn = "nil" /\ channel = "nil"
    /\ dbOpens = 0 /\ database = "nil"
    /\ gets = <<>>

\* C5 as stated: with the queue flag missing the process exits with code 2
\* and the usage text, and attempts no connection.
C5_AsStated ==
    (queue = <<>> /\ pc = "exited") =>
        /\ exitCode = 2
        /\ \E i \in 1..Len(stderr) : stderr[i] = "usage"
        /\ NothingAttempted

\* C5, amended: with the queue flag missing (and no leftover positional
\* argument, which exits 2 with the usage text before the flag is looked at)
\* the process exits with code 1 after reporting "Must supply queue name" on
\* standard error, without usage text; in every state of such a run no dial,
\* channel, store open or fetch has been attempted.
C5_MissingQueueExitsOne ==
    queue = <<>> =>
        /\ NothingAttempted
        /\ (pc = "exited" /\ argN = 0) =>
              /\ exitCode = 1
              /\ stderr = <<"Must supply queue name">>

\* C5's case: a run without queue name and without leftover arguments exited.
C5_Witness == queue = <<>> /\ argN = 0 /\ pc = "exited"

\* C6: on every exit path each connection that was opened, to the broker and
\* to the store, has been closed exactly once when the process exits, and at
\* no time has one been closed more often than it was opened.
C6_OpenedIsClosedOnce ==
    /\ connOpens <= 1 /\ dbOpens <= 1
    /\ connCloses <= connOpens
    /\ dbCloses <= dbOpens
    /\ pc = "exited" =>
          /\ connCloses = connOpens
          /\ dbCloses = dbOpens
          /\ conn # "open" /\ database # "open"

\* C6's case: a run aborted by a failed write exited with both closed.
C6_Witness ==
    /\ pc = "exited" /\ err = "save message"
    /\ connOpens = 1 /\ connCloses = 1
    /\ dbOpens = 1 /\ dbCloses = 1

\* A delivery with every field zero except routing_key = "orders".
OrdersDelivery == [EmptyDelivery EXCEPT !.RoutingKey = Orders]

\* getProperties has returned.
Returned == propsOut # None

\* C7 as stated: for a message whose fields are all zero except
\* routing_key = "orders", getProperties returns the map with the one key
\* routing_key, holding "orders".
C7_AsStated ==
    (Returned /\ propsIn = OrdersDelivery) =>
        /\ DOMAIN propsOut = {"routing_key"}
        /\ propsOut["routing_key"] = Str(Orders)

\* C7, amended: for that message getProperties returns exactly
\* {delivery_mode: 0, priority: 0, routing_key: "orders"}: the two numeric
\* fields are never the empty string, so they stay, also when they are zero.
C7_OrdersOnly ==
    (Returned /\ propsIn = OrdersDelivery) =>
        /\ DOMAIN propsOut = {"delivery_mode", "priority", "routing_key"}
        /\ propsOut["delivery_mode"] = U8(0)
        /\ propsOut["priority"] = U8(0)
        /\ propsOut["routing_key"] = Str(Orders)

\* C7's case: getProperties has returned for that message.
C7_Witness == Returned /\ propsIn = OrdersDelivery

\* The fields of a delivery that hold a string, by their key.
StringFields(d) ==
    [app_id |-> d.AppId, content_encoding |-> d.ContentEncoding,
     content_type |-> d.ContentType, correlation_id |-> d.CorrelationId,
     expiration |-> d.Expiration, message_id |-> d.MessageId,
     reply_to |-> d.ReplyTo, type |-> d.Type, user_id |-> d.UserId,
     exchange |-> d.Exchange, routing_key |-> d.RoutingKey]

\* C8: for every message the result of getProperties has no entry whose value
\* is the empty string, its keys are among the fixed field names and
\* timestamp, a string field is present exactly when it is not empty (and then
\* holds the field), and timestamp is present exactly when the message's
\* timestamp is not the zero instant.
C8_NoEmptyStrings ==
    Returned =>
        /\ \A k \in DOMAIN propsOut : propsOut[k] # Str(<<>>)
        /\ DOMAIN propsOut \subseteq
              DOMAIN StringFields(propsIn)
                 \cup {"delivery_mode", "priority", "timestamp"}
        /\ \A k \in DOMAIN StringFields(propsIn) :
              /\ k \in DOMAIN propsOut <=> StringFields(propsIn)[k] # <<>>
              /\ k \in DOMAIN propsOut =>
                    propsOut[k] = Str(StringFields(propsIn)[k])
        /\ "timestamp" \in DOMAIN propsOut <=> propsIn.Timestamp # ZeroTime

\* C8's case: a result for a message with an empty string field, a string
\* field that is not empty, and a timestamp.
C8_Witness ==
    /\ Returned
    /\ propsIn.AppId = <<>> /\ propsIn.Type # <<>>
    /\ propsIn.Timestamp # ZeroTime
    /\ "timestamp" \in DOMAIN propsOut

\* The keys of the outermost object of an indented JSON text: what follows a
\* line break, one indent and a quotation mark.
TopLevelKeys(text) ==
    {text[i + 3] : i \in {j \in 1..Len(text) - 3 :
                            /\ text[j] = "\n"
                            /\ text[j + 1] = "  "
                            /\ text[j + 2] = "\""}}

\* The files of the first n iterations of a run with *full: for each Counter
\* k the body msg-<k> and then its sidecar, the sidecar holding the indented
\* JSON of an envelope with the keys properties and headers.
TwoFilesEach(n) ==
    /\ Len(stdout) = 2 * n
    /\ n <= Len(fetched)
    /\ \A k \in 0..n - 1 :
          /\ stdout[2 * k + 1] = ExpectedBodyPath(k)
          /\ stdout[2 * k + 2] = ExpectedSidecarPath(k)
          /\ ExpectedBodyPath(k) \in DOMAIN fs
          /\ ExpectedSidecarPath(k) \in DOMAIN fs
          /\ fs[ExpectedBodyPath(k)] = fetched[k + 1].Body
          /\ fs[ExpectedSidecarPath(k)] = MarshalIndent(Envelope(fetched[k + 1]))
          /\ TopLevelKeys(fs[ExpectedSidecarPath(k)]) = {"properties", "headers"}

\* C9 as stated: given full = true, each successful fetch produces exactly two
\* files, so that whenever the loop is about to start an iteration the run
\* has written a body and a sidecar for each message fetched so far.
C9_AsStated ==
    (full /\ pc = "loop") => TwoFilesEach(Len(fetched))

\* C9, amended: given full = true and db = false (the File Sink; the Store
\* Sink writes no file, whatever full is), each fetch whose two writes succeed
\* produces exactly two files: for the message with Counter k the body msg-<k>
\* and the sidecar msg-<k>-headers+properties.json holding an envelope with
\* the keys properties and headers. A failed write aborts the run, which has
\* then written the two files of every earlier message and at most the body
\* of the last.
C9_FullWritesTwoFiles ==
    (full /\ ~db) =>
        /\ pc = "loop" => /\ TwoFilesEach(Len(fetched))
                          /\ messagesReceived = Len(fetched)
        /\ Len(stdout) \in {2 * messagesReceived, 2 * messagesReceived + 1}
        /\ \A i \in 1..Len(stdout) :
              stdout[i] = IF i % 2 = 1 THEN ExpectedBodyPath((i - 1) \div 2)
                          ELSE ExpectedSidecarPath((i - 2) \div 2)

\* C9's case: a File Sink run with full that has completed two iterations.
C9_Witness == full /\ ~db /\ pc = "loop" /\ messagesReceived = 2

\* The row the claim expects for a fetched message: its body and the indented
\* JSON of its envelope, both as text.
ExpectedRow(m, id) ==
    [id |-> id, message |-> TextValue(m.Body),
     headers |-> TextValue(MarshalIndent(Envelope(m)))]

\* C10 as stated: given db = true, each successful fetch adds exactly one row
\* whose message column equals the raw body and whose headers column equals
\* the JSON envelope, whatever bytes the body holds. Stated of the runs in
\* which neither the store nor the encoder fails.
C10_AsStated ==
    (/\ db /\ pc = "loop" /\ ~envFailure
     /\ \A i \in 1..Len(fetched) : ~MarshalFails(Envelope(fetched[i]))) =>
        /\ Len(RowsAdded) = Len(fetched)
        /\ \A i \in 1..Len(fetched) :
              RowsAdded[i] = ExpectedRow(fetched[i], Len(dump0.rows) + i)

\* The first run, once a second one has started.
FirstRun == previous[1]

IsPrefix(s, t) == Len(s) <= Len(t) /\ s = SubSeq(t, 1, Len(s))

\* A write of this run failed.
WriteFailed == err \in {"save message", "save props and headers"}

\* C11: when a File Sink run that ended without error is followed by a second
\* run of the same command into the same directory, then as long as the
\* second run fetches the same messages in the same order (so with the same
\* Counters) and none of its writes fails, the directory is in every state,
\* and so at the end, exactly as the first run left it: the same files with
\* the same bytes, each overwritten, none longer, none added.
C11_SecondRunKeepsFiles ==
    (/\ previous # <<>> /\ FirstRun.exitCode = 0
     /\ IsPrefix(fetched, FirstRun.fetched) /\ ~WriteFailed) =>
        /\ fs = FirstRun.fs
        /\ IsPrefix(stdout, FirstRun.stdout)
        /\ (pc = "exited" /\ exitCode = 0 /\ fetched = FirstRun.fetched) =>
              stdout = FirstRun.stdout

\* C11's case: a second run with full has ended without error after fetching
\* and writing the same two messages as the first.
C11_Witness ==
    /\ previous # <<>> /\ FirstRun.exitCode = 0
    /\ pc = "exited" /\ exitCode = 0 /\ full
    /\ fetched = FirstRun.fetched /\ Len(fetched) = 2
    /\ Len(stdout) = 4 /\ fs = FirstRun.fs

\* A fetch of this run failed at the transport level.
FetchFailed == \E i \in 1..Len(gets) : gets[i] = "error"

\* C12: when a fetch fails the run aborts. The failed fetch is the last one,
\* the run is on its way out with the error "Queue get", which main reports
\* before exiting with code 1; and from the failure on no step fetches,
\* writes a file or inserts a row: the directory, the table and the list of
\* files written stay what they were when the fetch failed.
C12_FetchErrorAborts ==
    /\ [](FetchFailed =>
            /\ gets[Len(gets)] = "error"
            /\ \A i \in 1..Len(gets) - 1 : gets[i] = "message"
            /\ pc \in {"return", "exited"}
            /\ err = "Queue get"
            /\ pc = "exited" =>
                  exitCode = 1 /\ stderr = <<"Queue get">>)
    /\ [][FetchFailed =>
            /\ gets' = gets /\ fetched' = fetched
            /\ fs' = fs /\ dump' = dump
            /\ stdout' = stdout /\ inserts' = inserts]_vars

\* C12's case: the second fetch of a File Sink run failed after the first
\* message was written, and the run has exited.
C12_Witness ==
    /\ gets = <<"message", "error">> /\ pc = "exited"
    /\ ~db /\ Len(BodiesWritten) = 1 /\ BodyFilesAre(1)

\* C13: in File Sink mode a failed write of a body or of a sidecar aborts the
\* loop at that message. The run is on its way out with the write's error,
\* which main reports before exiting with code 1; the message's iteration was
\* not completed (its Counter is still the current one, so it was not skipped)
\* and its file is not among the files written; and from the failure on no
\* step fetches or writes (nothing is retried, no later message is fetched).
C13_WriteErrorAborts ==
    /\ []((~db /\ WriteFailed) =>
            /\ pc \in {"return", "exited"}
            /\ Len(fetched) = messagesReceived + 1
            /\ \A i \in 1..Len(gets) : gets[i] = "message"
            /\ Len(gets) = Len(fetched)
            /\ err = "save message" =>
                  /\ Len(BodiesWritten) = messagesReceived
                  /\ \A i \in 1..Len(stdout) :
                        stdout[i] # generateFilePath(messagesReceived)
            /\ err = "save props and headers" =>
                  /\ full
                  /\ Len(BodiesWritten) = messagesReceived + 1
                  /\ Len(SidecarsWritten) = messagesReceived
                  /\ \A i \in 1..Len(stdout) :
                        stdout[i] # SidecarPath(messagesReceived)
            /\ pc = "exited" => exitCode = 1 /\ stderr = <<err>>)
    /\ [][(~db /\ WriteFailed) =>
            /\ gets' = gets /\ fetched' = fetched /\ fs' = fs
            /\ stdout' = stdout /\ messagesReceived' = messagesReceived]_vars

\* C13's case: the write of the first body failed with a message left in the
\* queue, and the run has exited.
C13_Witness ==
    /\ ~db /\ ack /\ maxMessages = 0
    /\ err = "save message" /\ pc = "exited"
    /\ Len(fetched) = 1 /\ ready # <<>>

\* An insert of this run failed: the envelope could not be serialized, or the
\* store refused the statement.
StoreFailed == \E i \in 1..Len(inserts) : ~inserts[i].ok

\* The messages the bound lets a run fetch from the queue it found.
WithinBound ==
    IF maxMessages = 0 \/ maxMessages > Len(ready0) THEN ready0
    ELSE SubSeq(ready0, 1, maxMessages)

\* C14: in Store Sink mode a failed serialization or insert does not abort
\* the loop. Every store of a message, failed or not, is followed by the
\* loop's next iteration with the Counter advanced and no error kept; a run
\* with a failed insert whose fetches did not fail has, when it ends, fetched
\* every message the bound allows, attempted one insert for each, and exits
\* with code 0 and nothing on standard error.
C14_StoreErrorGoesOn ==
    /\ []((db /\ StoreFailed) =>
            /\ err \in {Nil, "Queue get"}
            /\ Len(inserts) \in {Len(fetched), Len(fetched) - 1}
            /\ (pc = "exited" /\ ~FetchFailed) =>
                  /\ exitCode = 0 /\ stderr = <<>>
                  /\ fetched = WithinBound
                  /\ Len(inserts) = Len(fetched)
                  /\ messagesReceived = Len(fetched))
    /\ [][pc = "saveDb" =>
            /\ pc' = "loop" /\ err' = Nil
            /\ messagesReceived' = messagesReceived + 1
            /\ Len(inserts') = Len(inserts) + 1]_vars

\* C14's case: the insert of the first message failed, the second message
\* was fetched and stored, and the run ended with code 0.
C14_Witness ==
    /\ db /\ pc = "exited" /\ exitCode = 0
    /\ Len(inserts) = 2 /\ ~inserts[1].ok /\ inserts[2].ok
    /\ Len(RowsAdded) = 1

\* The table creation step of this run failed.
TableCreationFailed == err = "SQLite"

\* C15 as stated: with db = false a failed table creation is not fatal; the
\* run still fetches the messages of the queue and writes their files.
C15_AsStated ==
    (/\ ~db /\ TableCreationFailed /\ pc = "exited"
     /\ ready0 # <<>>) =>
        /\ gets # <<>>
        /\ BodiesWritten # <<>>

\* C15, amended: a failed table creation is fatal in both sink modes, the
\* File Sink included. The run is on its way out with the error "SQLite",
\* which main reports before exiting with code 1; no message was or will be
\* fetched, no file written and no row inserted, and the queue, the
\* directory and the table are as before the run.
C15_TableErrorIsFatal ==
    TableCreationFailed =>
        /\ pc \in {"return", "exited"}
        /\ gets = <<>> /\ fetched = <<>> /\ messagesReceived = 0
        /\ stdout = <<>> /\ fs = fs0
        /\ inserts = <<>> /\ dump = dump0
        /\ ready = ready0 /\ unacked = <<>>
        /\ pc = "exited" => exitCode = 1 /\ stderr = <<"SQLite">>

\* C15's case: a File Sink run whose table creation failed has exited, with
\* messages waiting in the queue.
C15_Witness ==
    /\ ~db /\ TableCreationFailed /\ pc = "exited"
    /\ ready0 # <<>>

\* C16: with ack = false every fetch of the run leaves its message
\* unacknowledged, so no run removes a message from the queue. While the
\* connection is open the messages fetched are held by the broker as
\* delivered and not acknowledged, in fetch order, ahead of those still
\* ready; once the connection is closed, and so on every exit path, the queue
\* holds the same messages as before the run, in the same order.
C16_NoAckKeepsQueue ==
    ~ack =>
        /\ unacked \o ready = ready0
        /\ conn = "open" => unacked = fetched
        /\ conn # "open" => unacked = <<>>
        /\ conn = "closed" => ready = ready0
        /\ pc = "exited" => ready = ready0 /\ conn # "open"

\* C16's case: a run without ack fetched and wrote two messages and exited,
\* its connection closed.
C16_Witness ==
    /\ ~ack /\ ~db /\ pc = "exited" /\ conn = "closed"
    /\ Len(fetched) = 2 /\ Len(BodiesWritten) = 2
    /\ ready = ready0

\* C17: with max-messages = N > 0 a run issues at most N fetch calls, in
\* either sink mode and whatever the outcome of the writes and inserts. Each
\* message fetched uses one unit of the bound, a failed insert included (one
\* insert attempt per completed iteration); once N messages are fetched no
\* fetch follows; and with ack = true the queue has lost exactly the messages
\* fetched, so at most N.
C17_AtMostNFetches ==
    maxMessages > 0 =>
        /\ Len(gets) <= maxMessages
        /\ Len(fetched) <= maxMessages
        /\ messagesReceived <= Len(fetched)
        /\ db => Len(inserts) = messagesReceived
        /\ Len(fetched) = maxMessages => pc # "get"
        /\ ack => /\ Len(ready0) - Len(ready) = Len(fetched)
                  /\ Len(ready0) - Len(ready) <= maxMessages
                  /\ fetched \o ready = ready0

\* C17's case: a Store Sink run with ack and a bound of 1 found two messages,
\* its one insert failed, and it ended leaving the second message.
C17_Witness ==
    /\ maxMessages = 1 /\ Len(ready0) = 2 /\ db /\ ack
    /\ pc = "exited" /\ exitCode = 0
    /\ Len(gets) = 1 /\ Len(inserts) = 1 /\ ~inserts[1].ok
    /\ Len(ready) = 1

\* The messages the broker no longer holds: delivered and acknowledged.
Acknowledged == Len(ready0) - Len(ready) - Len(unacked)

\* C18: in File Sink mode with ack = true a message is acknowledged when it
\* is fetched, before its body is written. In every state the messages
\* acknowledged are the messages fetched, and they exceed the body files
\* written by at most one: by one while a fetched message waits for its body
\* to be written and after a failed body write has aborted the run, by none
\* otherwise, in particular when the run has ended without error.
C18_AckLeadsByAtMostOne ==
    (~db /\ ack) =>
        /\ Acknowledged = Len(fetched)
        /\ Acknowledged - Len(BodiesWritten) \in {0, 1}
        /\ pc = "saveFile" => Acknowledged = Len(BodiesWritten) + 1
        /\ err = "save message" => Acknowledged = Len(BodiesWritten) + 1
        /\ (pc \notin {"saveFile"} /\ err # "save message") =>
              Acknowledged = Len(BodiesWritten)
        /\ (pc = "exited" /\ exitCode = 0) => Acknowledged = Len(BodiesWritten)

\* C18's case: the second body write of a run with ack failed; two messages
\* are gone from the queue and one body file was written.
C18_Witness ==
    /\ ~db /\ ack /\ pc = "exited" /\ err = "save message"
    /\ Acknowledged = 2 /\ Len(BodiesWritten) = 1
    /\ ready = <<>> /\ Len(ready0) = 2

\* A File Sink run with *full into a directory that held no file.
FullRunFromEmpty == full /\ ~db /\ fs0 = NoFiles

HasBody(k) == ExpectedBodyPath(k) \in DOMAIN fs

HasSidecar(k) == ExpectedSidecarPath(k) \in DOMAIN fs

\* The Counters a run of the model can reach.
Counters == 0..Len(ready0)

\* C19 as stated: in every state a sidecar exists only if its body file
\* exists, and a body file without sidecar belongs to the last message
\* fetched; when the run is over or on its way out, it is there only because
\* the run aborted on the sidecar write.
C19_AsStated ==
    FullRunFromEmpty =>
        \A k \in Counters :
            /\ HasSidecar(k) => HasBody(k)
            /\ (HasBody(k) /\ ~HasSidecar(k)) =>
                  /\ k = Len(fetched) - 1
                  /\ pc \in {"return", "exited"} =>
                        err = "save props and headers"

\* C19, amended: in every state a sidecar exists only if its body file
\* exists, the directory holds nothing but the two files of each completed
\* iteration and what the current one has written, and a body file without
\* sidecar belongs to the message of the current iteration, the last one
\* fetched, in one of three cases: its body is written and its sidecar is
\* about to be; the run aborted on its sidecar (the serialization or the
\* write failed); or the run aborted on the write of the body itself, which
\* left the file empty.
C19_BodyBeforeSidecar ==
    FullRunFromEmpty =>
        /\ DOMAIN fs \subseteq
              {ExpectedBodyPath(k) : k \in Counters}
                 \cup {ExpectedSidecarPath(k) : k \in Counters}
        /\ \A k \in Counters :
              /\ HasSidecar(k) => HasBody(k)
              /\ k < messagesReceived => HasBody(k) /\ HasSidecar(k)
              /\ k > messagesReceived => ~HasBody(k)
              /\ (HasBody(k) /\ ~HasSidecar(k)) =>
                    /\ k = messagesReceived /\ k = Len(fetched) - 1
                    /\ \/ pc = "saveProps"
                       \/ err = "save props and headers"
                       \/ err = "save message"
                          /\ fs[ExpectedBodyPath(k)] = <<>>

\* C19's case: the run wrote both files of the first message and the body
\* of the second, and aborted on the second sidecar.
C19_Witness ==
    /\ FullRunFromEmpty /\ pc = "exited"
    /\ err = "save props and headers"
    /\ HasBody(0) /\ HasSidecar(0) /\ HasBody(1) /\ ~HasSidecar(1)

=============================================================================
